---- MODULE Spec2Model ----
(***************************************************************************)
(* Model of the single-peer WebSocket relay server of                      *)
(* apps/desktop-tauri/src-tauri/src/ws_server.rs (WsServerState).          *)
(*                                                                         *)
(* Tasks: lifecycle callers (start / stop), senders (send), the Acceptor   *)
(* task spawned by every successful start, and one Reader task per         *)
(* connection whose handshake succeeded.  One action is one stretch of     *)
(* code between two suspension points that touch shared state.             *)
(* The mutexes around shutdown_tx and listener_handle are only ever taken  *)
(* by code that already holds op_lock, so they are never contended and     *)
(* are not represented; the mutex around sink is (sinkLock).               *)
(***************************************************************************)
EXTENDS Integers, Sequences, FiniteSets, TLC

\* ---- bounds of the model ----
MaxInputs == 4

\* ---- program constants ----
MAX_MESSAGE_SIZE == 65536
BIND_ATTEMPTS == 5

Callers == {1, 2}
Senders == {1}
Ports == {0, 1}
FrameLens == {10, 65536, 65537}
FrameKinds == {"binary", "text"}
Acceptors == 1..MaxInputs
Conns == 1..MaxInputs

None == 0
NoListener == -1
NoErr == -1
Free == <<"free", 0>>
NoFrame == <<0, "none", 0>>

VARIABLES
    sink,             \* Connection Slot: None or the connection whose write half it holds
    sinkLock,         \* holder of the mutex around sink
    shutdown_tx,      \* None or the Acceptor whose channel sender is stored
    listener_handle,  \* None or the Acceptor whose JoinHandle is stored
    op_lock,          \* None or the caller holding the Operation Lock
    accPc,            \* per Acceptor: "none" | "select" | "handshake" | "store" | "done"
    has_peer,         \* per Acceptor: its AtomicBool
    chan,             \* per Acceptor: "open" | "signalled" (a () is buffered)
    accPort,          \* per Acceptor: port its listener was bound to (held while the task is alive)
    accConn,          \* per Acceptor: connection it is currently handling
    nAcc,             \* number of Acceptor tasks spawned so far
    rdPc,             \* per connection: "none" | "reading" | "cleanup" | "notify" | "done"
    connAcc,          \* per connection: Acceptor that accepted it
    nConn,            \* number of TCP connections accepted so far
    nFrames,          \* number of frames delivered to Readers so far
    frame,            \* the frame delivered last: <<connection, kind, length>>
    events,           \* host events emitted so far
    pc,               \* per caller: position in start / stop
    op,               \* per caller: "start" | "stop" | "none"
    port,             \* per caller: port argument of start
    attempt,          \* per caller: loop variable of bind_with_retry
    last_err,         \* per caller: the attempt whose error last_err holds, -1 while it is empty
    lst,              \* per caller: port of the listener start holds, NoListener if none
    res,              \* per caller: result being returned
    nCalls,           \* number of start / stop calls issued so far
    sendPc,           \* per sender: "idle" | "writing"
    sendRes,          \* per sender: result of its last send
    nSends            \* number of send calls issued so far

serverVars == <<sink, shutdown_tx, listener_handle>>
taskVars == <<accPc, has_peer, chan, accPort, accConn, nAcc, rdPc, connAcc, nConn, nFrames, frame>>
callerVars == <<pc, op, port, attempt, last_err, lst, res, nCalls>>
sendVars == <<sendPc, sendRes, nSends>>
vars == <<sink, sinkLock, shutdown_tx, listener_handle, op_lock,
          accPc, has_peer, chan, accPort, accConn, nAcc,
          rdPc, connAcc, nConn, nFrames, frame, events,
          pc, op, port, attempt, last_err, lst, res, nCalls,
          sendPc, sendRes, nSends>>

\* WsServerState::new, and no call issued yet
Init ==
    /\ sink = None
    /\ sinkLock = Free
    /\ shutdown_tx = None
    /\ listener_handle = None
    /\ op_lock = None
    /\ accPc = [a \in Acceptors |-> "none"]
    /\ has_peer = [a \in Acceptors |-> FALSE]
    /\ chan = [a \in Acceptors |-> "open"]
    /\ accPort = [a \in Acceptors |-> NoListener]
    /\ accConn = [a \in Acceptors |-> None]
    /\ nAcc = 0
    /\ rdPc = [c \in Conns |-> "none"]
    /\ connAcc = [c \in Conns |-> None]
    /\ nConn = 0
    /\ nFrames = 0
    /\ frame = NoFrame
    /\ events = <<>>
    /\ pc = [k \in Callers |-> "idle"]
    /\ op = [k \in Callers |-> "none"]
    /\ port = [k \in Callers |-> 0]
    /\ attempt = [k \in Callers |-> 0]
    /\ last_err = [k \in Callers |-> NoErr]
    /\ lst = [k \in Callers |-> NoListener]
    /\ res = [k \in Callers |-> "none"]
    /\ nCalls = 0
    /\ sendPc = [s \in Senders |-> "idle"]
    /\ sendRes = [s \in Senders |-> "none"]
    /\ nSends = 0

\* the environment may still provide an input: a start or stop call, a TCP
\* connection, an inbound frame or a send call
Budget == nCalls + nConn + nFrames + nSends < MaxInputs

\* ---- derived notions ----
AcceptorAlive(a) == accPc[a] \in {"select", "handshake", "store"}
ReaderAlive(c) == rdPc[c] \in {"reading", "cleanup", "notify"}
LiveAcceptors == {a \in Acceptors : AcceptorAlive(a)}
LiveReaders == {c \in Conns : ReaderAlive(c)}

\* try_bind: binding port 0 picks a free ephemeral port; a fixed port is
\* refused while a listener of this process is still bound to it
PortFree(p) ==
    \/ p = 0
    \/ /\ \A a \in Acceptors : AcceptorAlive(a) => accPort[a] # p
       /\ \A k \in Callers : lst[k] # p

\* ---- lifecycle callers ----
CallStart(k, p) ==
    /\ pc[k] = "idle"
    /\ Budget
    /\ nCalls' = nCalls + 1
    /\ pc' = [pc EXCEPT ![k] = "lock"]
    /\ op' = [op EXCEPT ![k] = "start"]
    /\ port' = [port EXCEPT ![k] = p]
    /\ UNCHANGED <<serverVars, sinkLock, op_lock, taskVars, events, attempt, last_err, lst, res, sendVars>>

CallStop(k) ==
    /\ pc[k] = "idle"
    /\ Budget
    /\ nCalls' = nCalls + 1
    /\ pc' = [pc EXCEPT ![k] = "lock"]
    /\ op' = [op EXCEPT ![k] = "stop"]
    /\ UNCHANGED <<serverVars, sinkLock, op_lock, taskVars, events, port, attempt, last_err, lst, res, sendVars>>

\* mutant of AcquireOpLock: the lock is taken without waiting for its holder
AcquireOpLockNoWait(k) ==
    /\ pc[k] = "lock"
    /\ op_lock' = k
    /\ pc' = [pc EXCEPT ![k] = "signal"]
    /\ UNCHANGED <<serverVars, sinkLock, taskVars, events, op, port, attempt, last_err, lst, res, nCalls, sendVars>>

\* let _guard = self.op_lock.lock().await
AcquireOpLock(k) ==
    /\ pc[k] = "lock"
    /\ op_lock = None
    /\ op_lock' = k
    /\ pc' = [pc EXCEPT ![k] = "signal"]
    /\ UNCHANGED <<serverVars, sinkLock, taskVars, events, op, port, attempt, last_err, lst, res, nCalls, sendVars>>

\* mutant of StopInnerSignal: the sender is used in place (as_ref) instead of taken
StopInnerSignalKeepsSender(k) ==
    /\ pc[k] = "signal"
    /\ chan' = IF shutdown_tx # None /\ accPc[shutdown_tx] # "done"
               THEN [chan EXCEPT ![shutdown_tx] = "signalled"]
               ELSE chan
    /\ pc' = [pc EXCEPT ![k] = "take_sink"]
    /\ UNCHANGED <<serverVars, sinkLock, op_lock, accPc, has_peer, accPort, accConn, nAcc,
                   rdPc, connAcc, nConn, nFrames, frame, events, op, port, attempt, last_err, lst, res, nCalls, sendVars>>

\* stop_inner, first statement: take the sender and send ()
StopInnerSignal(k) ==
    /\ pc[k] = "signal"
    /\ shutdown_tx' = None
    /\ chan' = IF shutdown_tx # None /\ accPc[shutdown_tx] # "done"
               THEN [chan EXCEPT ![shutdown_tx] = "signalled"]
               ELSE chan
    /\ pc' = [pc EXCEPT ![k] = "take_sink"]
    /\ UNCHANGED <<sink, sinkLock, listener_handle, op_lock, accPc, has_peer, accPort, accConn, nAcc,
                   rdPc, connAcc, nConn, nFrames, frame, events, op, port, attempt, last_err, lst, res, nCalls, sendVars>>

\* stop_inner, second statement: lock the slot and take the write half
StopInnerTakeSink(k) ==
    /\ pc[k] = "take_sink"
    /\ sinkLock = Free
    /\ IF sink # None
       THEN /\ sink' = None
            /\ sinkLock' = <<"stop", k>>
            /\ pc' = [pc EXCEPT ![k] = "close"]
       ELSE /\ UNCHANGED <<sink, sinkLock>>
            /\ pc' = [pc EXCEPT ![k] = "join"]
    /\ UNCHANGED <<shutdown_tx, listener_handle, op_lock, taskVars, events, op, port, attempt, last_err, lst, res, nCalls, sendVars>>

\* sink.close().await finishes (its result is ignored); the guard is dropped
StopInnerClose(k) ==
    /\ pc[k] = "close"
    /\ sinkLock = <<"stop", k>>
    /\ sinkLock' = Free
    /\ pc' = [pc EXCEPT ![k] = "join"]
    /\ UNCHANGED <<serverVars, op_lock, taskVars, events, op, port, attempt, last_err, lst, res, nCalls, sendVars>>

\* mutant of StopInnerJoin: the handle is taken and dropped without being awaited
StopInnerJoinNoAwait(k) ==
    /\ pc[k] = "join"
    /\ listener_handle' = None
    /\ IF op[k] = "stop"
       THEN /\ pc' = [pc EXCEPT ![k] = "ret"]
            /\ res' = [res EXCEPT ![k] = "ok"]
       ELSE /\ pc' = [pc EXCEPT ![k] = "bind"]
            /\ res' = res
    /\ attempt' = [attempt EXCEPT ![k] = 0]
    /\ UNCHANGED <<sink, sinkLock, shutdown_tx, op_lock, taskVars, events, op, port, last_err, lst, nCalls, sendVars>>

\* stop_inner, third statement: take the handle and await the task
StopInnerJoin(k) ==
    /\ pc[k] = "join"
    /\ listener_handle # None => accPc[listener_handle] = "done"
    /\ listener_handle' = None
    /\ IF op[k] = "stop"
       THEN /\ pc' = [pc EXCEPT ![k] = "ret"]
            /\ res' = [res EXCEPT ![k] = "ok"]
       ELSE /\ pc' = [pc EXCEPT ![k] = "bind"]
            /\ res' = res
    /\ attempt' = [attempt EXCEPT ![k] = 0]
    /\ UNCHANGED <<sink, sinkLock, shutdown_tx, op_lock, taskVars, events, op, port, last_err, lst, nCalls, sendVars>>

\* mutant of BindAttempt: the error of the first failed attempt is kept
BindAttemptKeepsFirstErr(k, envOk) ==
    /\ pc[k] = "bind"
    /\ attempt[k] < BIND_ATTEMPTS
    /\ IF envOk /\ PortFree(port[k])
       THEN /\ lst' = [lst EXCEPT ![k] = port[k]]
            /\ pc' = [pc EXCEPT ![k] = "resolve"]
            /\ attempt' = [attempt EXCEPT ![k] = 0]
            /\ last_err' = [last_err EXCEPT ![k] = NoErr]
            /\ res' = res
       ELSE /\ lst' = lst
            /\ last_err' = [last_err EXCEPT ![k] = IF last_err[k] = NoErr THEN attempt[k] ELSE last_err[k]]
            /\ IF attempt[k] + 1 = BIND_ATTEMPTS
               THEN /\ pc' = [pc EXCEPT ![k] = "ret"]
                    /\ res' = [res EXCEPT ![k] = "err"]
                    /\ attempt' = [attempt EXCEPT ![k] = 0]
               ELSE /\ pc' = [pc EXCEPT ![k] = "sleep"]
                    /\ res' = res
                    /\ attempt' = [attempt EXCEPT ![k] = attempt[k] + 1]
    /\ UNCHANGED <<serverVars, sinkLock, op_lock, taskVars, events, op, port, nCalls, sendVars>>

\* one try_bind of the loop of bind_with_retry(port, 5, 200): Ok returns the
\* listener (last_err is dropped); Err is kept in last_err and either the loop
\* goes on to its next iteration, which starts with the sleep, or the range is
\* exhausted and Err(last_err) is returned
BindAttempt(k, envOk) ==
    /\ pc[k] = "bind"
    /\ attempt[k] < BIND_ATTEMPTS
    /\ IF envOk /\ PortFree(port[k])
       THEN /\ lst' = [lst EXCEPT ![k] = port[k]]
            /\ pc' = [pc EXCEPT ![k] = "resolve"]
            /\ attempt' = [attempt EXCEPT ![k] = 0]
            /\ last_err' = [last_err EXCEPT ![k] = NoErr]
            /\ res' = res
       ELSE /\ lst' = lst
            /\ last_err' = [last_err EXCEPT ![k] = attempt[k]]
            /\ IF attempt[k] + 1 = BIND_ATTEMPTS
               THEN /\ pc' = [pc EXCEPT ![k] = "ret"]
                    /\ res' = [res EXCEPT ![k] = "err"]
                    /\ attempt' = [attempt EXCEPT ![k] = 0]
               ELSE /\ pc' = [pc EXCEPT ![k] = "sleep"]
                    /\ res' = res
                    /\ attempt' = [attempt EXCEPT ![k] = attempt[k] + 1]
    /\ UNCHANGED <<serverVars, sinkLock, op_lock, taskVars, events, op, port, nCalls, sendVars>>

\* if attempt > 0: tokio::time::sleep(delay_ms) elapses
BindSleep(k) ==
    /\ pc[k] = "sleep"
    /\ pc' = [pc EXCEPT ![k] = "bind"]
    /\ UNCHANGED <<serverVars, sinkLock, op_lock, taskVars, events, op, port, attempt, last_err, lst, res, nCalls, sendVars>>

\* listener.local_addr() and local_ip_address::local_ip(): on error the
\* function returns and the listener is dropped
StartResolve(k, envOk) ==
    /\ pc[k] = "resolve"
    /\ IF envOk
       THEN /\ pc' = [pc EXCEPT ![k] = "spawn"]
            /\ UNCHANGED <<lst, res>>
       ELSE /\ pc' = [pc EXCEPT ![k] = "ret"]
            /\ lst' = [lst EXCEPT ![k] = NoListener]
            /\ res' = [res EXCEPT ![k] = "err"]
    /\ UNCHANGED <<serverVars, sinkLock, op_lock, taskVars, events, op, port, attempt, last_err, nCalls, sendVars>>

\* create the channel, store the sender, spawn the Acceptor (the listener
\* moves into it), store the handle
StartSpawn(k) ==
    /\ pc[k] = "spawn"
    /\ nAcc < MaxInputs
    /\ LET a == nAcc + 1 IN
        /\ nAcc' = a
        /\ shutdown_tx' = a
        /\ listener_handle' = a
        /\ accPc' = [accPc EXCEPT ![a] = "select"]
        /\ accPort' = [accPort EXCEPT ![a] = lst[k]]
    /\ lst' = [lst EXCEPT ![k] = NoListener]
    /\ pc' = [pc EXCEPT ![k] = "ret"]
    /\ res' = [res EXCEPT ![k] = "ok"]
    /\ UNCHANGED <<sink, sinkLock, op_lock, has_peer, chan, accConn, rdPc, connAcc, nConn,
                   nFrames, frame, events, op, port, attempt, last_err, nCalls, sendVars>>

\* the call returns: _guard is dropped
Return(k) ==
    /\ pc[k] = "ret"
    /\ op_lock' = IF op_lock = k THEN None ELSE op_lock
    /\ pc' = [pc EXCEPT ![k] = "idle"]
    /\ op' = [op EXCEPT ![k] = "none"]
    /\ port' = [port EXCEPT ![k] = 0]
    /\ res' = [res EXCEPT ![k] = "none"]
    /\ last_err' = [last_err EXCEPT ![k] = NoErr]
    /\ UNCHANGED <<serverVars, sinkLock, taskVars, events, attempt, lst, nCalls, sendVars>>

\* ---- Acceptor task ----
\* mutant of AcceptorReject: has_peer is not consulted, the handshake is attempted
AcceptorRejectHandshakes(a) ==
    /\ accPc[a] = "select"
    /\ Budget
    /\ has_peer[a]
    /\ nConn' = nConn + 1
    /\ accConn' = [accConn EXCEPT ![a] = nConn + 1]
    /\ connAcc' = [connAcc EXCEPT ![nConn + 1] = a]
    /\ accPc' = [accPc EXCEPT ![a] = "handshake"]
    /\ UNCHANGED <<serverVars, sinkLock, op_lock, has_peer, chan, accPort, nAcc,
                   rdPc, nFrames, frame, events, callerVars, sendVars>>

\* listener.accept() yields Ok while has_peer is set: drop(stream); continue
AcceptorReject(a) ==
    /\ accPc[a] = "select"
    /\ Budget
    /\ has_peer[a]
    /\ nConn' = nConn + 1
    /\ UNCHANGED <<serverVars, sinkLock, op_lock, accPc, has_peer, chan, accPort, accConn, nAcc,
                   rdPc, connAcc, nFrames, frame, events, callerVars, sendVars>>

\* listener.accept() yields Ok while has_peer is clear: start accept_async
AcceptorAccept(a) ==
    /\ accPc[a] = "select"
    /\ Budget
    /\ ~has_peer[a]
    /\ nConn' = nConn + 1
    /\ accConn' = [accConn EXCEPT ![a] = nConn + 1]
    /\ connAcc' = [connAcc EXCEPT ![nConn + 1] = a]
    /\ accPc' = [accPc EXCEPT ![a] = "handshake"]
    /\ UNCHANGED <<serverVars, sinkLock, op_lock, has_peer, chan, accPort, nAcc,
                   rdPc, nFrames, frame, events, callerVars, sendVars>>

\* mutant of AcceptorHandshakeFail: the failure ends the accept loop
AcceptorHandshakeFailBreaks(a) ==
    /\ accPc[a] = "handshake"
    /\ accPc' = [accPc EXCEPT ![a] = "done"]
    /\ accConn' = [accConn EXCEPT ![a] = None]
    /\ UNCHANGED <<serverVars, sinkLock, op_lock, has_peer, chan, accPort, nAcc,
                   rdPc, connAcc, nConn, nFrames, frame, events, callerVars, sendVars>>

\* accept_async(stream) fails: continue
AcceptorHandshakeFail(a) ==
    /\ accPc[a] = "handshake"
    /\ accPc' = [accPc EXCEPT ![a] = "select"]
    /\ accConn' = [accConn EXCEPT ![a] = None]
    /\ UNCHANGED <<serverVars, sinkLock, op_lock, has_peer, chan, accPort, nAcc,
                   rdPc, connAcc, nConn, nFrames, frame, events, callerVars, sendVars>>

\* accept_async(stream) succeeds: has_peer.store(true), then wait for the slot
AcceptorHandshakeOk(a) ==
    /\ accPc[a] = "handshake"
    /\ has_peer' = [has_peer EXCEPT ![a] = TRUE]
    /\ accPc' = [accPc EXCEPT ![a] = "store"]
    /\ UNCHANGED <<serverVars, sinkLock, op_lock, chan, accPort, accConn, nAcc,
                   rdPc, connAcc, nConn, nFrames, frame, events, callerVars, sendVars>>

\* store the write half, emit ws-connection, spawn the Reader
AcceptorStore(a) ==
    /\ accPc[a] = "store"
    /\ sinkLock = Free
    /\ sink' = accConn[a]
    /\ events' = Append(events, <<"ws-connection", accConn[a], 0>>)
    /\ rdPc' = [rdPc EXCEPT ![accConn[a]] = "reading"]
    /\ accPc' = [accPc EXCEPT ![a] = "select"]
    /\ accConn' = [accConn EXCEPT ![a] = None]
    /\ UNCHANGED <<sinkLock, shutdown_tx, listener_handle, op_lock, has_peer, chan, accPort, nAcc,
                   connAcc, nConn, nFrames, frame, callerVars, sendVars>>

\* mutant of AcceptorAcceptErr: the failing Acceptor tears the connection down
\* itself (clears has-peer and the slot and reports a close)
AcceptorAcceptErrTearsDown(a) ==
    /\ accPc[a] = "select"
    /\ sinkLock = Free
    /\ accPc' = [accPc EXCEPT ![a] = "done"]
    /\ has_peer' = [has_peer EXCEPT ![a] = FALSE]
    /\ sink' = None
    /\ events' = IF sink # None THEN Append(events, <<"ws-close", sink, 0>>) ELSE events
    /\ UNCHANGED <<sinkLock, shutdown_tx, listener_handle, op_lock, chan, accPort, accConn, nAcc,
                   rdPc, connAcc, nConn, nFrames, frame, callerVars, sendVars>>

\* listener.accept() yields Err: break; the listener is dropped
AcceptorAcceptErr(a) ==
    /\ accPc[a] = "select"
    /\ accPc' = [accPc EXCEPT ![a] = "done"]
    /\ UNCHANGED <<serverVars, sinkLock, op_lock, has_peer, chan, accPort, accConn, nAcc,
                   rdPc, connAcc, nConn, nFrames, frame, events, callerVars, sendVars>>

\* shutdown_rx.recv() completes: break; the listener is dropped
AcceptorShutdown(a) ==
    /\ accPc[a] = "select"
    /\ chan[a] = "signalled"
    /\ accPc' = [accPc EXCEPT ![a] = "done"]
    /\ UNCHANGED <<serverVars, sinkLock, op_lock, has_peer, chan, accPort, accConn, nAcc,
                   rdPc, connAcc, nConn, nFrames, frame, events, callerVars, sendVars>>

\* ---- Reader task ----
\* mutant of ReaderFrame: the size test is >= instead of >
ReaderFrameOffByOne(c, kind, len) ==
    /\ rdPc[c] = "reading"
    /\ Budget
    /\ nFrames' = nFrames + 1
    /\ frame' = <<c, kind, len>>
    /\ events' = IF len >= MAX_MESSAGE_SIZE
                 THEN events
                 ELSE Append(events, <<"ws-message", c, len>>)
    /\ UNCHANGED <<serverVars, sinkLock, op_lock, accPc, has_peer, chan, accPort, accConn, nAcc,
                   rdPc, connAcc, nConn, callerVars, sendVars>>

\* a binary or text frame arrives
ReaderFrame(c, kind, len) ==
    /\ rdPc[c] = "reading"
    /\ Budget
    /\ nFrames' = nFrames + 1
    /\ frame' = <<c, kind, len>>
    /\ events' = IF len > MAX_MESSAGE_SIZE
                 THEN events
                 ELSE Append(events, <<"ws-message", c, len>>)
    /\ UNCHANGED <<serverVars, sinkLock, op_lock, accPc, has_peer, chan, accPort, accConn, nAcc,
                   rdPc, connAcc, nConn, callerVars, sendVars>>

\* a frame of another kind (ping, pong, raw frame) arrives
ReaderOther(c) ==
    /\ rdPc[c] = "reading"
    /\ Budget
    /\ nFrames' = nFrames + 1
    /\ frame' = <<c, "other", 0>>
    /\ UNCHANGED <<serverVars, sinkLock, op_lock, accPc, has_peer, chan, accPort, accConn, nAcc,
                   rdPc, connAcc, nConn, events, callerVars, sendVars>>

\* close frame, read error or end of stream: leave the loop, has_peer.store(false)
ReaderClose(c) ==
    /\ rdPc[c] = "reading"
    /\ rdPc' = [rdPc EXCEPT ![c] = "cleanup"]
    /\ has_peer' = [has_peer EXCEPT ![connAcc[c]] = FALSE]
    /\ UNCHANGED <<serverVars, sinkLock, op_lock, accPc, chan, accPort, accConn, nAcc,
                   connAcc, nConn, nFrames, frame, events, callerVars, sendVars>>

\* *sink_close.lock().await = None
ReaderCleanup(c) ==
    /\ rdPc[c] = "cleanup"
    /\ sinkLock = Free
    /\ sink' = None
    /\ rdPc' = [rdPc EXCEPT ![c] = "notify"]
    /\ UNCHANGED <<sinkLock, shutdown_tx, listener_handle, op_lock, accPc, has_peer, chan, accPort,
                   accConn, nAcc, connAcc, nConn, nFrames, frame, events, callerVars, sendVars>>

\* emit ws-close; the Reader task ends
ReaderNotify(c) ==
    /\ rdPc[c] = "notify"
    /\ events' = Append(events, <<"ws-close", c, 0>>)
    /\ rdPc' = [rdPc EXCEPT ![c] = "done"]
    /\ UNCHANGED <<serverVars, sinkLock, op_lock, accPc, has_peer, chan, accPort,
                   accConn, nAcc, connAcc, nConn, nFrames, frame, callerVars, sendVars>>

\* ---- send ----
\* mutant of SendLock: the else branch is missing, an empty slot yields Ok(())
SendLockSilentOk(s) ==
    /\ sendPc[s] = "idle"
    /\ Budget
    /\ sinkLock = Free
    /\ nSends' = nSends + 1
    /\ IF sink = None
       THEN /\ sendRes' = [sendRes EXCEPT ![s] = "ok"]
            /\ UNCHANGED <<sendPc, sinkLock>>
       ELSE /\ sendRes' = [sendRes EXCEPT ![s] = "none"]
            /\ sendPc' = [sendPc EXCEPT ![s] = "writing"]
            /\ sinkLock' = <<"send", s>>
    /\ UNCHANGED <<serverVars, op_lock, taskVars, events, callerVars>>

\* lock the slot; empty slot: Err("no peer connected"); else start writing
SendLock(s) ==
    /\ sendPc[s] = "idle"
    /\ Budget
    /\ sinkLock = Free
    /\ nSends' = nSends + 1
    /\ IF sink = None
       THEN /\ sendRes' = [sendRes EXCEPT ![s] = "no peer connected"]
            /\ UNCHANGED <<sendPc, sinkLock>>
       ELSE /\ sendRes' = [sendRes EXCEPT ![s] = "none"]
            /\ sendPc' = [sendPc EXCEPT ![s] = "writing"]
            /\ sinkLock' = <<"send", s>>
    /\ UNCHANGED <<serverVars, op_lock, taskVars, events, callerVars>>

\* mutant of SendWrite: a failed write drops the write half from the slot
SendWriteDropsSink(s, envOk) ==
    /\ sendPc[s] = "writing"
    /\ sinkLock = <<"send", s>>
    /\ sinkLock' = Free
    /\ sendPc' = [sendPc EXCEPT ![s] = "idle"]
    /\ sendRes' = [sendRes EXCEPT ![s] = IF envOk THEN "ok" ELSE "send failed"]
    /\ sink' = IF envOk THEN sink ELSE None
    /\ UNCHANGED <<shutdown_tx, listener_handle, op_lock, taskVars, events, callerVars, nSends>>

\* sink.send(Message::Binary(..)).await finishes; the guard is dropped
SendWrite(s, envOk) ==
    /\ sendPc[s] = "writing"
    /\ sinkLock = <<"send", s>>
    /\ sinkLock' = Free
    /\ sendPc' = [sendPc EXCEPT ![s] = "idle"]
    /\ sendRes' = [sendRes EXCEPT ![s] = IF envOk THEN "ok" ELSE "send failed"]
    /\ UNCHANGED <<serverVars, op_lock, taskVars, events, callerVars, nSends>>

Next ==
    \/ \E k \in Callers, p \in Ports : CallStart(k, p)
    \/ \E k \in Callers : CallStop(k)
    \/ \E k \in Callers : AcquireOpLock(k)
    \/ \E k \in Callers : StopInnerSignal(k)
    \/ \E k \in Callers : StopInnerTakeSink(k)
    \/ \E k \in Callers : StopInnerClose(k)
    \/ \E k \in Callers : StopInnerJoin(k)
    \/ \E k \in Callers, envOk \in BOOLEAN : BindAttempt(k, envOk)
    \/ \E k \in Callers : BindSleep(k)
    \/ \E k \in Callers, envOk \in BOOLEAN : StartResolve(k, envOk)
    \/ \E k \in Callers : StartSpawn(k)
    \/ \E k \in Callers : Return(k)
    \/ \E a \in Acceptors : AcceptorReject(a)
    \/ \E a \in Acceptors : AcceptorAccept(a)
    \/ \E a \in Acceptors : AcceptorHandshakeFail(a)
    \/ \E a \in Acceptors : AcceptorHandshakeOk(a)
    \/ \E a \in Acceptors : AcceptorStore(a)
    \/ \E a \in Acceptors : AcceptorShutdown(a)
    \/ \E a \in Acceptors : AcceptorAcceptErr(a)
    \/ \E c \in Conns, kind \in FrameKinds, len \in FrameLens : ReaderFrame(c, kind, len)
    \/ \E c \in Conns : ReaderOther(c)
    \/ \E c \in Conns : ReaderClose(c)
    \/ \E c \in Conns : ReaderCleanup(c)
    \/ \E c \in Conns : ReaderNotify(c)
    \/ \E s \in Senders : SendLock(s)
    \/ \E s \in Senders, envOk \in BOOLEAN : SendWrite(s, envOk)

Spec == Init /\ [][Next]_vars

\* the steps the runtime takes on its own once they are possible: steps of the
\* lifecycle calls, of the Acceptor and Reader tasks between their awaits on the
\* network, and the completion of a socket write.  What a client decides (to
\* connect, to finish or abandon a handshake, to send a frame or to close) is
\* not among them.
ServerStep ==
    \/ \E k \in Callers : AcquireOpLock(k)
    \/ \E k \in Callers : StopInnerSignal(k)
    \/ \E k \in Callers : StopInnerTakeSink(k)
    \/ \E k \in Callers : StopInnerClose(k)
    \/ \E k \in Callers : StopInnerJoin(k)
    \/ \E k \in Callers, envOk \in BOOLEAN : BindAttempt(k, envOk)
    \/ \E k \in Callers : BindSleep(k)
    \/ \E k \in Callers, envOk \in BOOLEAN : StartResolve(k, envOk)
    \/ \E k \in Callers : StartSpawn(k)
    \/ \E k \in Callers : Return(k)
    \/ \E a \in Acceptors : AcceptorStore(a)
    \/ \E a \in Acceptors : AcceptorShutdown(a)
    \/ \E c \in Conns : ReaderCleanup(c)
    \/ \E c \in Conns : ReaderNotify(c)
    \/ \E s \in Senders, envOk \in BOOLEAN : SendWrite(s, envOk)

FairSpec == Spec /\ WF_vars(ServerStep)

\* ---- notions used by the properties ----
InBody(k) == pc[k] \in {"signal", "take_sink", "close", "join", "bind", "sleep", "resolve", "spawn", "ret"}
StopReturning(k) == pc[k] = "ret" /\ op[k] = "stop"
StartFailing(k) == pc[k] = "ret" /\ op[k] = "start" /\ res[k] = "err"
FirstBind(k) == pc[k] = "bind" /\ attempt[k] = 0
RetirementComplete ==
    /\ LiveAcceptors = {}
    /\ shutdown_tx = None
    /\ listener_handle = None

\* C1: at no instant are two Acceptor tasks alive at the same time.
C1_OneAcceptor == Cardinality(LiveAcceptors) <= 1

\* a second Acceptor runs after the first was retired, while another call waits for the lock
C1_Witness ==
    /\ nAcc = 2
    /\ accPc[1] = "done"
    /\ AcceptorAlive(2)
    /\ \E k \in Callers : pc[k] = "lock"

\* C2: between acquiring the Operation Lock and returning, a start or stop call
\* is the only call inside the body (retirement, binding, spawning), and it is
\* the holder of the lock.
C2_MutualExclusion ==
    \A k1, k2 \in Callers :
        InBody(k1) /\ InBody(k2) => k1 = k2 /\ op_lock = k1

\* one call is binding while the other call waits for the lock
C2_Witness ==
    \E k1, k2 \in Callers :
        /\ k1 # k2
        /\ pc[k1] = "bind"
        /\ pc[k2] = "lock"
        /\ nAcc >= 1

\* C3: whenever stop returns and whenever start reaches its first bind attempt,
\* no Acceptor is alive (no listener is held), the Shutdown Signal sender is
\* empty and the Background Task Handle is empty; and a start that completes
\* leaves exactly one live Acceptor, bound to the requested port.
C3_RetireBeforeBind ==
    [][ /\ \A k \in Callers :
              (StopReturning(k) \/ FirstBind(k))' => RetirementComplete'
        /\ \A k \in Callers :
              pc[k] = "spawn" /\ pc'[k] = "ret" =>
                  /\ Cardinality(LiveAcceptors') = 1
                  /\ LiveAcceptors' = {listener_handle'}
                  /\ accPort'[listener_handle'] = port[k]
      ]_vars

\* start(1) has completed a second time on the same port, the first Acceptor being retired
C3_Witness ==
    /\ nAcc = 2
    /\ accPc[1] = "done"
    /\ accPort[1] = 1
    /\ accPort[2] = 1
    /\ AcceptorAlive(2)
    /\ \E k \in Callers : pc[k] = "ret" /\ op[k] = "start" /\ res[k] = "ok"

\* C4: when a stop call returns, the Connection Slot is empty (so a send issued
\* then fails with "no peer connected"), whatever the Acceptor was doing when
\* stop was called.
C4_StopEmptiesSlot ==
    \A k \in Callers : StopReturning(k) => sink = None

\* C5: at most one Reader task is alive at every instant.
C5_OneReader == Cardinality(LiveReaders) <= 1

\* no lifecycle call, slot access, Reader cleanup or Acceptor store is under way
Settled ==
    /\ op_lock = None
    /\ sinkLock = Free
    /\ \A c \in Conns : rdPc[c] \notin {"cleanup", "notify"}
    /\ \A a \in Acceptors : accPc[a] # "store"

\* C6: (outside the windows in which a task is updating it) the Connection Slot
\* is non-empty only if it holds the write half of a Connection whose Reader is
\* still reading, and a peer that is connected with has-peer true under a
\* running Acceptor has its write half in the slot.
C6_SlotIffConnection ==
    Settled =>
        /\ sink # None => rdPc[sink] = "reading"
        /\ \A c \in Conns :
              (rdPc[c] = "reading" /\ has_peer[connAcc[c]] /\ AcceptorAlive(connAcc[c]))
              => sink = c

\* C7: a TCP connection accepted while has-peer is true is discarded without a
\* handshake: slot, has-peer, Readers and events are unchanged and the Acceptor
\* stays in its loop.
C7_RejectSecondPeer ==
    [][ \A a \in Acceptors :
            (accPc[a] = "select" /\ has_peer[a] /\ nConn' = nConn + 1 /\ LiveAcceptors = {a})
            => /\ accPc'[a] = "select"
               /\ UNCHANGED <<sink, sinkLock, has_peer, rdPc, connAcc, accConn, events>>
      ]_vars

\* a second connection was discarded while the first one is still the peer
C7_Witness ==
    /\ nConn = 2
    /\ connAcc[2] = None
    /\ rdPc[1] = "reading"
    /\ sink = 1
    /\ has_peer[connAcc[1]]
    /\ accPc[connAcc[1]] = "select"

\* C8: a send that finds the Connection Slot empty returns "no peer connected"
\* and changes no server state; it needs the slot's lock only, never the
\* Operation Lock.
C8_SendNoPeer ==
    [][ \A s \in Senders :
          /\ (sendPc[s] = "idle" /\ nSends' = nSends + 1 /\ sink = None)
             => /\ sendRes'[s] = "no peer connected"
                /\ sendPc'[s] = "idle"
                /\ UNCHANGED <<serverVars, sinkLock, op_lock, taskVars, events, callerVars>>
          /\ (sendPc[s] = "idle" /\ Budget /\ sinkLock = Free /\ op_lock # None)
             => ENABLED SendLock(s)
      ]_vars

\* a send has returned "no peer connected" while a later start or stop call is
\* in progress, holding the Operation Lock
C8_Witness ==
    \E s \in Senders :
        /\ sendRes[s] = "no peer connected"
        /\ sendPc[s] = "idle"
        /\ op_lock # None
        /\ pc[op_lock] \in {"join", "bind"}
        /\ nAcc >= 1

\* C9: a send whose write fails returns the error and leaves the slot holding
\* the same write half; has-peer, sender, handle and events are unchanged.
C9_FailedSendFrame ==
    [][ \A s \in Senders :
            (sendPc[s] = "writing" /\ sendRes'[s] = "send failed")
            => /\ sink # None
               /\ sink' = sink
               /\ sendPc'[s] = "idle"
               /\ UNCHANGED <<has_peer, shutdown_tx, listener_handle, events, accPc, rdPc>>
      ]_vars

\* a send has failed and the slot still holds the peer's write half
C9_Witness ==
    \E s \in Senders :
        /\ sendRes[s] = "send failed"
        /\ sink # None
        /\ rdPc[sink] = "reading"

\* C10: a start call that returns an error leaves the server stopped: no
\* Acceptor alive, no listener held, sender empty, handle empty, slot empty.
C10_FailedStartStopped ==
    \A k \in Callers :
        StartFailing(k) =>
            /\ RetirementComplete
            /\ \A j \in Callers : lst[j] = NoListener
            /\ sink = None

\* C11: stop called when no server is running (no Acceptor alive, sender and
\* handle empty) returns successfully, changes
\* no server or task state and emits no host event (so a second stop adds
\* nothing to the first).
C11_StopIdempotent ==
    [][ \A k \in Callers :
            (op[k] = "stop" /\ op_lock = k /\ RetirementComplete /\ pc'[k] # pc[k])
            => /\ UNCHANGED <<serverVars, taskVars, events>>
               /\ pc'[k] = "ret" => res'[k] = "ok"
      ]_vars

\* C12: a binary or text frame read on a live connection yields exactly one
\* ws-message event carrying it when its length is at most 65536 bytes, and no
\* event when it is longer; either way the Reader keeps reading and slot and
\* has-peer are unchanged.
C12_FrameSizeLimit ==
    [][ (nFrames' = nFrames + 1 /\ frame'[2] \in FrameKinds)
        => /\ rdPc[frame'[1]] = "reading"
           /\ frame'[3] <= 65536 =>
                  events' = Append(events, <<"ws-message", frame'[1], frame'[3]>>)
           /\ frame'[3] > 65536 => events' = events
           /\ UNCHANGED <<rdPc, sink, has_peer, sinkLock>>
      ]_vars

\* a frame of exactly 65536 bytes was forwarded, then a longer one was dropped
\* and the Reader is still reading
C12_Witness ==
    /\ nFrames = 2
    /\ frame = <<1, "text", 65537>>
    /\ events = << <<"ws-connection", 1, 0>>, <<"ws-message", 1, 65536>> >>
    /\ rdPc[1] = "reading"
    /\ sink = 1

\* number of ws-close events of connection c in the event sequence ev
CloseCount(ev, c) == Cardinality({i \in 1..Len(ev) : ev[i] = <<"ws-close", c, 0>>})

\* a ws-close event was emitted and no ws-connection event follows it
ClosedSinceLastConnection ==
    \E i \in 1..Len(events) :
        /\ events[i][1] = "ws-close"
        /\ \A j \in (i + 1)..Len(events) : events[j][1] # "ws-connection"

\* C13: every connection gets at most one ws-close event, exactly one once its
\* Reader has ended, and a send issued after a ws-close event with no newer
\* connection established since returns "no peer connected".
C13_CloseOnceThenNoPeer ==
    [][ /\ \A c \in Conns :
              /\ CloseCount(events', c) <= 1
              /\ rdPc'[c] = "done" => CloseCount(events', c) = 1
        /\ \A s \in Senders :
              (nSends' = nSends + 1 /\ ClosedSinceLastConnection)
              => sendRes'[s] = "no peer connected"
      ]_vars

\* C14: when stop returns, no background task of the retired server is alive:
\* neither an Acceptor nor the Reader of a connection it accepted.
C14_NoLeakedTask ==
    \A k \in Callers : StopReturning(k) => (LiveAcceptors = {} /\ LiveReaders = {})

\* C15: a Reader that ends while the slot holds the write half of another
\* connection leaves the slot as it is.
C15_CleanupOwnSlotOnly ==
    [][ \A c \in Conns :
            (rdPc[c] = "cleanup" /\ rdPc'[c] # "cleanup" /\ sink # c) => sink' = sink
      ]_vars

\* C16: under fair scheduling a stop, or the retirement that opens a start, that
\* holds the operation lock and is about to signal eventually finishes the
\* retirement (stop returns, start goes on to bind).
C16_StopReturns ==
    \A k \in Callers :
        (op_lock = k /\ pc[k] = "signal") ~> (pc[k] \in {"bind", "ret"})

\* the stored sender or handle belongs to an Acceptor that has already exited
StaleSender == shutdown_tx # None /\ accPc[shutdown_tx] = "done"
StaleHandle == listener_handle # None /\ accPc[listener_handle] = "done"

\* C17: an Acceptor whose listener fails in accept exits without emitting an
\* event and without touching the slot, has-peer, a Reader, the stored sender or
\* the stored handle; the next stop or start is not held up by the stale sender
\* and handle, empties both, and a stop then returns Ok.
C17_AcceptErrorSilent ==
    [][ /\ \A a \in Acceptors :
              (accPc[a] = "select" /\ accPc'[a] = "done" /\ chan[a] = "open")
              => UNCHANGED <<events, sink, sinkLock, has_peer, rdPc, shutdown_tx, listener_handle>>
        /\ \A k \in Callers :
              /\ (op_lock = k /\ pc[k] = "signal" /\ StaleSender)
                 => /\ ENABLED StopInnerSignal(k)
                    /\ pc'[k] # pc[k] => shutdown_tx' = None
              /\ (op_lock = k /\ pc[k] = "join" /\ StaleHandle)
                 => /\ ENABLED StopInnerJoin(k)
                    /\ pc'[k] # pc[k] =>
                          /\ listener_handle' = None
                          /\ op[k] = "stop" => (pc'[k] = "ret" /\ res'[k] = "ok")
                          /\ op[k] = "start" => pc'[k] = "bind"
      ]_vars

\* an Acceptor ended on an accept error with a connection open; a later start
\* consumed its sender and handle and spawned a new Acceptor, and the Reader of
\* that connection is still reading
C17_Witness ==
    \E a, b \in Acceptors :
        /\ accPc[a] = "done" /\ chan[a] = "open"
        /\ AcceptorAlive(b) /\ listener_handle = b /\ shutdown_tx = b
        /\ \E c \in Conns : connAcc[c] = a /\ rdPc[c] = "reading"

\* C18: a handshake that fails changes nothing: has-peer stays false, the slot,
\* the Readers and the events are untouched, no Reader is spawned for the
\* connection, and the Acceptor is back in its accept loop.
C18_FailedHandshake ==
    [][ \A a \in Acceptors :
            (accPc[a] = "handshake" /\ accPc'[a] \notin {"handshake", "store"})
            => /\ accPc'[a] = "select"
               /\ ~has_peer'[a]
               /\ rdPc'[accConn[a]] = "none"
               /\ UNCHANGED <<has_peer, sink, sinkLock, rdPc, events, shutdown_tx, listener_handle>>
      ]_vars

\* the first connection failed its handshake (no Reader, no event) and the same
\* Acceptor then established the second one
C18_Witness ==
    /\ nConn = 2
    /\ connAcc[1] = connAcc[2]
    /\ rdPc[1] = "none" /\ accConn[connAcc[1]] = None
    /\ rdPc[2] = "reading" /\ sink = 2 /\ has_peer[connAcc[2]]
    /\ events = << <<"ws-connection", 2, 0>> >>

\* C19: bind_with_retry as start calls it makes at most 5 attempts (numbered
\* 0..4); a successful attempt returns its listener at once; the delay is taken
\* only after a failed attempt that is not the last and is followed by the next
\* attempt, never before the first; when the fifth attempt fails the call
\* returns the error of that attempt.
C19_BindWithRetry ==
    [][ \A k \in Callers :
            /\ pc'[k] \in {"bind", "sleep"} => attempt'[k] \in 0..4
            /\ (pc[k] = "bind" /\ pc'[k] # "bind")
               => \/ pc'[k] = "resolve" /\ lst'[k] = port[k]
                  \/ /\ pc'[k] = "sleep" /\ lst'[k] = lst[k]
                     /\ attempt[k] < 4 /\ attempt'[k] = attempt[k] + 1
                     /\ last_err'[k] = attempt[k]
                  \/ /\ pc'[k] = "ret" /\ lst'[k] = lst[k]
                     /\ attempt[k] = 4
                     /\ res'[k] = "err" /\ last_err'[k] = 4
            /\ (pc[k] = "bind" /\ UNCHANGED pc) => UNCHANGED <<attempt, last_err, lst, res>>
            /\ (pc'[k] = "sleep" /\ pc[k] # "sleep") => pc[k] = "bind"
            /\ (pc[k] = "sleep" /\ pc'[k] # "sleep")
               => pc'[k] = "bind" /\ attempt'[k] = attempt[k] /\ attempt[k] >= 1
            /\ (pc'[k] = "bind" /\ pc[k] # "bind")
               => \/ pc[k] = "join" /\ attempt'[k] = 0 /\ last_err'[k] = NoErr
                  \/ pc[k] = "sleep"
      ]_vars

\* a start returns the error of its fifth attempt after all five failed
C19_Witness ==
    \E k \in Callers :
        pc[k] = "ret" /\ op[k] = "start" /\ res[k] = "err" /\ last_err[k] = 4

\* position of the latest ws-connection or ws-close event before position i,
\* 0 if there is none
PrevLifecycle(i) ==
    LET S == {j \in 1..(i - 1) : events[j][1] # "ws-message"}
    IN  IF S = {} THEN 0 ELSE CHOOSE j \in S : \A m \in S : m <= j

\* C20: in the event stream ws-connection and ws-close alternate, starting with
\* ws-connection, each ws-close closing the connection opened just before it,
\* and every ws-message lies after the ws-connection of its own connection and
\* before that connection's ws-close.
C20_EventsAlternate ==
    \A i \in 1..Len(events) :
        LET p == PrevLifecycle(i) IN
        /\ events[i][1] = "ws-connection" => (p = 0 \/ events[p][1] = "ws-close")
        /\ events[i][1] \in {"ws-close", "ws-message"}
           => (p # 0 /\ events[p] = <<"ws-connection", events[i][2], 0>>)

TypeOK ==
    /\ sink \in {None} \cup Conns
    /\ shutdown_tx \in {None} \cup Acceptors
    /\ listener_handle \in {None} \cup Acceptors
    /\ op_lock \in {None} \cup Callers
    /\ nAcc \in 0..MaxInputs
    /\ nConn \in 0..MaxInputs
====
